---- MODULE Spec2Model ----
(***************************************************************************)
(* Model of the relaybot inbound-email webhook (src/src/index.js) and of   *)
(* the date helpers of the record-store service (src/src/services/         *)
(* notion.js).                                                             *)
(*                                                                         *)
(* JavaScript values are tagged records [t, s]: t is "string",             *)
(* "undefined" or "object" (any truthy non-string value: an object, an     *)
(* array, a number); s is the string's text as a sequence of one-character *)
(* strings.                                                                *)
(***************************************************************************)
EXTENDS Integers, Sequences, FiniteSets, TLC

VARIABLES req, store, cal, zone

vars == <<req, store, cal, zone>>

---------------------------------------------------------------------------
(* JavaScript values and strings *)

Str(s) == [t |-> "string", s |-> s]

Undefined == [t |-> "undefined", s |-> <<>>]

Obj == [t |-> "object", s |-> <<>>]

EmptyStr == Str(<<>>)

Truthy(v) == v.t = "object" \/ (v.t = "string" /\ v.s # <<>>)

\* a || b
Or(a, b) == IF Truthy(a) THEN a ELSE b

UpperChars == <<"A","B","C","D","E","F","G","H","I","J","K","L","M",
                "N","O","P","Q","R","S","T","U","V","W","X","Y","Z">>

LowerChars == <<"a","b","c","d","e","f","g","h","i","j","k","l","m",
                "n","o","p","q","r","s","t","u","v","w","x","y","z">>

LowerChar(c) ==
  IF \E i \in 1..Len(UpperChars) : UpperChars[i] = c
  THEN LowerChars[CHOOSE i \in 1..Len(UpperChars) : UpperChars[i] = c]
  ELSE c

UpperChar(c) ==
  IF \E i \in 1..Len(LowerChars) : LowerChars[i] = c
  THEN UpperChars[CHOOSE i \in 1..Len(LowerChars) : LowerChars[i] = c]
  ELSE c

\* String.prototype.toLowerCase
ToLowerCase(s) == [i \in 1..Len(s) |-> LowerChar(s[i])]

\* true when sub occurs in s starting at (1-based) position i
MatchAt(s, i, sub) ==
  /\ i >= 1
  /\ i + Len(sub) - 1 <= Len(s)
  /\ \A k \in 1..Len(sub) : s[i + k - 1] = sub[k]

\* String.prototype.includes
Includes(s, sub) == \E i \in 1..(Len(s) + 1) : MatchAt(s, i, sub)

\* case-insensitive MatchAt (regex flag i); sub is given in lower case
MatchAtCI(s, i, sub) ==
  /\ i >= 1
  /\ i + Len(sub) - 1 <= Len(s)
  /\ \A k \in 1..Len(sub) : LowerChar(s[i + k - 1]) = sub[k]

\* position of the first occurrence of character c in s at or after i, 0 if none
IndexFrom(s, i, c) ==
  IF \E j \in i..Len(s) : s[j] = c
  THEN CHOOSE j \in i..Len(s) : s[j] = c /\ \A k \in i..(j - 1) : s[k] # c
  ELSE 0

IsSpace(c) == c \in {" ", "\n", "\t"}

\* String.prototype.trim
RECURSIVE TrimLeft(_)
TrimLeft(s) ==
  IF s # <<>> /\ IsSpace(Head(s)) THEN TrimLeft(Tail(s)) ELSE s

RECURSIVE TrimRight(_)
TrimRight(s) ==
  IF s # <<>> /\ IsSpace(s[Len(s)]) THEN TrimRight(SubSeq(s, 1, Len(s) - 1)) ELSE s

Trim(s) == TrimRight(TrimLeft(s))

\* s.replace(/lit/g, rep) for a literal pattern lit: one left-to-right pass
RECURSIVE ReplaceLit(_, _, _, _)
ReplaceLit(s, i, lit, rep) ==
  IF i > Len(s) THEN <<>>
  ELSE IF MatchAt(s, i, lit) THEN rep \o ReplaceLit(s, i + Len(lit), lit, rep)
  ELSE <<s[i]>> \o ReplaceLit(s, i + 1, lit, rep)

\* s.replace(/lit/gi, rep); lit is given in lower case
RECURSIVE ReplaceLitCI(_, _, _, _)
ReplaceLitCI(s, i, lit, rep) ==
  IF i > Len(s) THEN <<>>
  ELSE IF MatchAtCI(s, i, lit) THEN rep \o ReplaceLitCI(s, i + Len(lit), lit, rep)
  ELSE <<s[i]>> \o ReplaceLitCI(s, i + 1, lit, rep)

\* end position of a match of /<br\s*\/?>/i starting at i, 0 if none
RECURSIVE SkipSpaces(_, _)
SkipSpaces(s, i) ==
  IF i <= Len(s) /\ IsSpace(s[i]) THEN SkipSpaces(s, i + 1) ELSE i

BrEnd(s, i) ==
  IF ~MatchAtCI(s, i, <<"<", "b", "r">>) THEN 0
  ELSE LET j == SkipSpaces(s, i + 3)
           k == IF j <= Len(s) /\ s[j] = "/" THEN j + 1 ELSE j
       IN IF k <= Len(s) /\ s[k] = ">" THEN k ELSE 0

\* s.replace(/<br\s*\/?>/gi, '\n')
RECURSIVE ReplaceBr(_, _)
ReplaceBr(s, i) ==
  IF i > Len(s) THEN <<>>
  ELSE IF BrEnd(s, i) # 0 THEN <<"\n">> \o ReplaceBr(s, BrEnd(s, i) + 1)
  ELSE <<s[i]>> \o ReplaceBr(s, i + 1)

\* end position of a match of /<[^>]+>/ starting at i, 0 if none
TagEnd(s, i) ==
  IF i > Len(s) \/ s[i] # "<" THEN 0
  ELSE LET j == IndexFrom(s, i + 1, ">")
       IN IF j >= i + 2 THEN j ELSE 0

\* s.replace(/<[^>]+>/g, '')
RECURSIVE RemoveTags(_, _)
RemoveTags(s, i) ==
  IF i > Len(s) THEN <<>>
  ELSE IF TagEnd(s, i) # 0 THEN RemoveTags(s, TagEnd(s, i) + 1)
  ELSE <<s[i]>> \o RemoveTags(s, i + 1)

Amp == <<"&", "a", "m", "p", ";">>
Lt == <<"&", "l", "t", ";">>
Gt == <<"&", "g", "t", ";">>
Nbsp == <<"&", "n", "b", "s", "p", ";">>

\* stripHtml without its final trim()
StripChainNoTrim(s) ==
  LET s1 == ReplaceBr(s, 1)
      s2 == ReplaceLitCI(s1, 1, <<"<", "/", "p", ">">>, <<"\n", "\n">>)
      s3 == RemoveTags(s2, 1)
      s4 == ReplaceLit(s3, 1, Nbsp, <<" ">>)
      s5 == ReplaceLit(s4, 1, Amp, <<"&">>)
      s6 == ReplaceLit(s5, 1, Lt, <<"<">>)
  IN ReplaceLit(s6, 1, Gt, <<">">>)

\* the chain of replaces of stripHtml on a non-empty string
StripChain(s) ==
  LET s1 == ReplaceBr(s, 1)
      s2 == ReplaceLitCI(s1, 1, <<"<", "/", "p", ">">>, <<"\n", "\n">>)
      s3 == RemoveTags(s2, 1)
      s4 == ReplaceLit(s3, 1, Nbsp, <<" ">>)
      s5 == ReplaceLit(s4, 1, Amp, <<"&">>)
      s6 == ReplaceLit(s5, 1, Lt, <<"<">>)
      s7 == ReplaceLit(s6, 1, Gt, <<">">>)
  IN Trim(s7)

Threw == [t |-> "throw", s |-> <<>>]

\* stripHtml(html): '' for a falsy argument, a TypeError (Threw) for a truthy
\* value without a replace method
stripHtml(html) ==
  IF ~Truthy(html) THEN EmptyStr
  ELSE IF html.t # "string" THEN Threw
  ELSE Str(StripChain(html.s))

\* extractEmail(fromField): first /<([^>]+)>/ capture, else the field itself
extractEmail(fromField) ==
  IF ~Truthy(fromField) THEN EmptyStr
  ELSE IF fromField.t # "string" THEN Threw
  ELSE LET s == fromField.s
           hits == {i \in 1..Len(s) : TagEnd(s, i) # 0}
       IN IF hits = {} THEN fromField
          ELSE LET i == CHOOSE h \in hits : \A g \in hits : h <= g
               IN Str(SubSeq(s, i + 1, TagEnd(s, i) - 1))

---------------------------------------------------------------------------
(* Inbound payloads: req.body of POST /webhook/email *)

\* the payload fields the handlers read, in serialization order; a nested
\* read such as body.From?.Address is the field "From.Address"
Keys == <<"Uuid", "MessageId", "From", "From.Address", "ReplyTo", "To", "To.0",
          "To.0.Address", "Subject", "RawTextBody", "ExtractedMarkdownMessage",
          "RawHtmlBody", "from", "to", "envelope.to.0", "subject", "text", "html",
          "sender", "recipient", "body-plain", "body-html", "FromFull",
          "FromFull.Email", "ToFull.0.Email", "TextBody", "HtmlBody", "body",
          "content", "message", "email", "from_email">>

KeySet == {Keys[i] : i \in 1..Len(Keys)}

\* the payload holding the given fields and nothing else
Payload(fields) ==
  [k \in KeySet |-> IF k \in DOMAIN fields THEN fields[k] ELSE Undefined]

\* body.From?.Address
FromAddress(p) == IF p["From"].t = "object" THEN p["From.Address"] ELSE Undefined

\* v?.[0] for a string v (its first character) or an array v (its element elem)
Index0(v, elem) ==
  IF v.t = "string" THEN (IF v.s # <<>> THEN Str(<<Head(v.s)>>) ELSE Undefined)
  ELSE IF v.t = "object" THEN elem
  ELSE Undefined

\* body.To?.[0]
To0(p) == Index0(p["To"], p["To.0"])

\* body.To?.[0]?.Address
To0Address(p) == IF To0(p).t = "object" THEN p["To.0.Address"] ELSE Undefined

\* JSON.stringify(body): the fields present, in order, between braces
RECURSIVE SerializeFrom(_, _)
SerializeFrom(p, i) ==
  IF i > Len(Keys) THEN <<>>
  ELSE (IF p[Keys[i]].t = "undefined" THEN <<>>
        ELSE <<"\"", Keys[i], "\"", ":", "\"">> \o p[Keys[i]].s \o <<"\"", ",">>)
       \o SerializeFrom(p, i + 1)

Serialize(p) == Str(<<"{">> \o SerializeFrom(p, 1) \o <<"}">>)

\* a || b || c ..., where an operand that throws ends the evaluation
OrT(a, b) == IF a = Threw THEN Threw ELSE IF Truthy(a) THEN a ELSE b

Envelope(m, f, t, s, b) ==
  [matcher |-> m, from |-> f, to |-> t, subject |-> s, body |-> b,
   threw |-> Threw \in {f, t, s, b}]

BrevoPred(p) ==
  Truthy(p["Uuid"]) \/ Truthy(p["MessageId"])
    \/ (Truthy(p["From"]) /\ Truthy(p["RawHtmlBody"]))

BrevoExtract(p) ==
  Envelope("brevo",
    OrT(OrT(FromAddress(p),
            IF p["From"].t = "string" THEN extractEmail(p["From"]) ELSE EmptyStr),
        extractEmail(Or(p["ReplyTo"], EmptyStr))),
    extractEmail(Or(Or(Or(To0Address(p), To0(p)), p["To"]), EmptyStr)),
    Or(p["Subject"], EmptyStr),
    OrT(Or(p["RawTextBody"], p["ExtractedMarkdownMessage"]),
        stripHtml(p["RawHtmlBody"])))

SendGridPred(p) == Truthy(p["from"]) /\ (Truthy(p["text"]) \/ Truthy(p["html"]))

SendGridExtract(p) ==
  Envelope("sendgrid",
    extractEmail(p["from"]),
    extractEmail(Or(Or(p["to"], p["envelope.to.0"]), EmptyStr)),
    Or(p["subject"], EmptyStr),
    OrT(p["text"], stripHtml(p["html"])))

MailgunPred(p) ==
  Truthy(p["sender"]) /\ (Truthy(p["body-plain"]) \/ Truthy(p["body-html"]))

MailgunExtract(p) ==
  Envelope("mailgun",
    p["sender"],
    Or(p["recipient"], EmptyStr),
    Or(p["subject"], EmptyStr),
    OrT(p["body-plain"], stripHtml(p["body-html"])))

PostmarkPred(p) == Truthy(p["FromFull"]) \/ Truthy(p["From"])

PostmarkExtract(p) ==
  Envelope("postmark",
    Or(IF p["FromFull"].t = "object" THEN p["FromFull.Email"] ELSE Undefined,
       p["From"]),
    Or(Or(p["ToFull.0.Email"], p["To"]), EmptyStr),
    Or(p["Subject"], EmptyStr),
    OrT(p["TextBody"], stripHtml(p["HtmlBody"])))

GenericPred(p) == Truthy(p["from"]) \/ Truthy(p["sender"])

GenericExtract(p) ==
  Envelope("generic",
    Or(p["from"], p["sender"]),
    Or(Or(p["to"], p["recipient"]), EmptyStr),
    Or(p["subject"], EmptyStr),
    Or(Or(Or(p["body"], p["text"]), p["content"]), p["html"]))

Unknown == <<"u", "n", "k", "n", "o", "w", "n">>

\* the fallback without JSON.stringify(body) as the last resort
FallbackExtractNoSerialize(p) ==
  Envelope("fallback",
    Or(Or(p["email"], p["from_email"]), Str(Unknown)),
    Or(Or(p["to"], p["recipient"]), EmptyStr),
    Or(p["subject"], EmptyStr),
    Or(Or(Or(p["body"], p["text"]), p["content"]), p["message"]))

FallbackExtract(p) ==
  Envelope("fallback",
    Or(Or(p["email"], p["from_email"]), Str(Unknown)),
    Or(Or(p["to"], p["recipient"]), EmptyStr),
    Or(p["subject"], EmptyStr),
    Or(Or(Or(Or(p["body"], p["text"]), p["content"]), p["message"]), Serialize(p)))

\* the chain with the SendGrid test moved in front of the Brevo test
parseSendGridFirst(p) ==
  IF SendGridPred(p) THEN SendGridExtract(p)
  ELSE IF BrevoPred(p) THEN BrevoExtract(p)
  ELSE IF MailgunPred(p) THEN MailgunExtract(p)
  ELSE IF PostmarkPred(p) THEN PostmarkExtract(p)
  ELSE IF GenericPred(p) THEN GenericExtract(p)
  ELSE FallbackExtract(p)

parseInboundEmail(p) ==
  IF BrevoPred(p) THEN BrevoExtract(p)
  ELSE IF SendGridPred(p) THEN SendGridExtract(p)
  ELSE IF MailgunPred(p) THEN MailgunExtract(p)
  ELSE IF PostmarkPred(p) THEN PostmarkExtract(p)
  ELSE IF GenericPred(p) THEN GenericExtract(p)
  ELSE FallbackExtract(p)

---------------------------------------------------------------------------
(* Calendar arithmetic behind the JavaScript Date object.  An instant is a  *)
(* number of minutes since 1970-01-01T00:00Z; the server's local time is   *)
(* the instant plus tz, the server's UTC offset in minutes.                *)

DigitChars == <<"0", "1", "2", "3", "4", "5", "6", "7", "8", "9">>

DigitVal(c) == (CHOOSE i \in 1..Len(DigitChars) : DigitChars[i] = c) - 1

RECURSIVE ParseInt(_)
ParseInt(s) ==
  IF s = <<>> THEN 0
  ELSE ParseInt(SubSeq(s, 1, Len(s) - 1)) * 10 + DigitVal(s[Len(s)])

Digit(n) == DigitChars[n + 1]

Pad2(n) == <<Digit(n \div 10), Digit(n % 10)>>

Pad4(n) == <<Digit(n \div 1000), Digit((n \div 100) % 10),
             Digit((n \div 10) % 10), Digit(n % 10)>>

\* the text YYYY-MM-DD of a calendar day
DateText(y, m, d) == Pad4(y) \o <<"-">> \o Pad2(m) \o <<"-">> \o Pad2(d)

\* the text HH:MM of a time of day
TimeText(h, mi) == Pad2(h) \o <<":">> \o Pad2(mi)

MinutesPerDay == 24 * 60

\* days from 1970-01-01 to the civil day y-m-d (proleptic Gregorian)
DaysFromCivil(y, m, d) ==
  LET yy == IF m <= 2 THEN y - 1 ELSE y
      era == yy \div 400
      yoe == yy - era * 400
      mp == IF m > 2 THEN m - 3 ELSE m + 9
      doy == (153 * mp + 2) \div 5 + d - 1
      doe == yoe * 365 + yoe \div 4 - yoe \div 100 + doy
  IN era * 146097 + doe - 719468

\* the civil day of a day number
CivilFromDays(z) ==
  LET zz == z + 719468
      era == zz \div 146097
      doe == zz - era * 146097
      yoe == (doe - doe \div 1460 + doe \div 36524 - doe \div 146096) \div 365
      doy == doe - (365 * yoe + yoe \div 4 - yoe \div 100)
      mp == (5 * doy + 2) \div 153
      d == doy - (153 * mp + 2) \div 5 + 1
      m == IF mp < 10 THEN mp + 3 ELSE mp - 9
      y == yoe + era * 400
  IN [y |-> IF m <= 2 THEN y + 1 ELSE y, m |-> m, d |-> d]

\* day of the week of a day number, Sunday = 0 (1970-01-01 was a Thursday)
WeekdayOfDays(z) == (z + 4) % 7

\* the server-local day number of an instant
LocalDays(t, tz) == (t + tz) \div MinutesPerDay

\* Date.prototype.getFullYear / getDay (server-local)
getFullYear(t, tz) == CivilFromDays(LocalDays(t, tz)).y

getDay(t, tz) == WeekdayOfDays(LocalDays(t, tz))

\* new Date(year, monthIndex, day, hours, minutes): server-local fields;
\* a day beyond the month's end rolls over, as the Date constructor does
NewDateLocal(y, monthIndex, d, h, mi, tz) ==
  (DaysFromCivil(y, monthIndex + 1, 1) + d - 1) * MinutesPerDay + h * 60 + mi - tz

\* new Date('YYYY-MM-DD'): a date-only ISO text is midnight UTC
NewDateISO(text) ==
  DaysFromCivil(ParseInt(SubSeq(text, 1, 4)), ParseInt(SubSeq(text, 6, 7)),
                ParseInt(SubSeq(text, 9, 10))) * MinutesPerDay

Plus1 == <<"+", "0", "1", ":", "0", "0">>

Plus2 == <<"+", "0", "2", ":", "0", "0">>

\* the comparison and the return of getAmsterdamOffset
OffsetFor(date, dstStart, dstEnd) ==
  IF date >= dstStart /\ date < dstEnd THEN Plus2 ELSE Plus1

\* the boundary with the weekday index counted from Monday
BoundaryMondayFirst(year, monthIndex, h, tz) ==
  NewDateLocal(year, monthIndex,
               31 - ((getDay(NewDateLocal(year, monthIndex, 31, 0, 0, tz), tz) + 6) % 7),
               h, 0, tz)

\* the last-Sunday boundary: new Date(year, monthIndex, 31 - last.getDay(), h, 0)
\* for last = new Date(year, monthIndex, 31)
Boundary(year, monthIndex, h, tz) ==
  NewDateLocal(year, monthIndex,
               31 - getDay(NewDateLocal(year, monthIndex, 31, 0, 0, tz), tz),
               h, 0, tz)

\* getAmsterdamOffset(dateStr) once const date and const year are known
OffsetIn(date, year, tz) ==
  OffsetFor(date, Boundary(year, 2, 2, tz), Boundary(year, 9, 3, tz))

\* getAmsterdamOffset(dateStr); date and year are bound once, as the consts
\* of the function are
getAmsterdamOffset(dateStr, tz) ==
  LET offsets == UNION {{OffsetIn(date, year, tz) : year \in {getFullYear(date, tz)}} :
                         date \in {NewDateISO(dateStr)}}
  IN CHOOSE offset \in offsets : TRUE

\* the composed value without the seconds
WithTimeNoSeconds(date, time, offset) == date \o <<"T">> \o time \o offset

\* `${date}T${time}:00${offset}`
WithTime(date, time, offset) == date \o <<"T">> \o time \o <<":", "0", "0">> \o offset

NoDate == [isNull |-> TRUE, start |-> Undefined, end |-> Undefined]

\* buildDateProperty without the comparison of end with start
buildDatePropertyAnyEnd(startDate, startTime, endDate, endTime, tz) ==
  IF ~Truthy(startDate) THEN NoDate
  ELSE
    LET start == IF Truthy(startTime)
                 THEN Str(WithTime(startDate.s, startTime.s,
                                   getAmsterdamOffset(startDate.s, tz)))
                 ELSE startDate
        end0 == Or(endDate, startDate)
        end == IF Truthy(endTime)
               THEN Str(WithTime(end0.s, endTime.s, getAmsterdamOffset(end0.s, tz)))
               ELSE end0
    IN [isNull |-> FALSE,
        start |-> start,
        end |-> IF Truthy(endDate) \/ Truthy(endTime) THEN end ELSE Undefined]

\* buildDateProperty(startDate, startTime, endDate, endTime): the date
\* property, NoDate for { date: null }; an absent end is Undefined
buildDateProperty(startDate, startTime, endDate, endTime, tz) ==
  IF ~Truthy(startDate) THEN NoDate
  ELSE
    LET start == IF Truthy(startTime)
                 THEN Str(WithTime(startDate.s, startTime.s,
                                   getAmsterdamOffset(startDate.s, tz)))
                 ELSE startDate
        end0 == Or(endDate, startDate)
        end == IF Truthy(endTime)
               THEN Str(WithTime(end0.s, endTime.s, getAmsterdamOffset(end0.s, tz)))
               ELSE end0
    IN [isNull |-> FALSE,
        start |-> start,
        end |-> IF (Truthy(endDate) \/ Truthy(endTime)) /\ end # start
                THEN end ELSE Undefined]

---------------------------------------------------------------------------
(* The publication day of a newsletter item: next Thursday, its week       *)
(* number and its text                                                     *)

\* Date.prototype.getMonth / getDate (server-local)
getMonth(t, tz) == CivilFromDays(LocalDays(t, tz)).m - 1

getDate(t, tz) == CivilFromDays(LocalDays(t, tz)).d

\* Date.UTC(year, monthIndex, day)
DateUTC(y, monthIndex, d) ==
  (DaysFromCivil(y, monthIndex + 1, 1) + d - 1) * MinutesPerDay

\* date.setDate(day): the server-local day of the month replaced, the month
\* and the time of day kept; a day outside the month rolls over
setDate(t, day, tz) ==
  (DaysFromCivil(getFullYear(t, tz), getMonth(t, tz) + 1, 1) + day - 1)
      * MinutesPerDay
    + ((t + tz) % MinutesPerDay) - tz

\* getNextThursday without the seven days added on a Thursday
getNextThursdayOrToday(today, tz) ==
  setDate(today, getDate(today, tz) + ((4 - getDay(today, tz) + 7) % 7), tz)

\* getNextThursday(), today being new Date()
getNextThursday(today, tz) ==
  LET dayOfWeek == getDay(today, tz)
      daysUntilThursday == (4 - dayOfWeek + 7) % 7
      daysToAdd == IF daysUntilThursday = 0 THEN 7 ELSE daysUntilThursday
  IN setDate(today, getDate(today, tz) + daysToAdd, tz)

\* getWeekNumber with Sunday counted as day 0 of its week
getWeekNumberSundayFirst(date, tz) ==
  LET d0 == DateUTC(getFullYear(date, tz), getMonth(date, tz), getDate(date, tz))
      d == setDate(d0, getDate(d0, 0) + 4 - getDay(d0, 0), 0)
      yearStart == DateUTC(getFullYear(d, 0), 0, 1)
  IN ((d - yearStart) \div MinutesPerDay + 1 + 6) \div 7

\* getWeekNumber(date); the UTC getters and setters are the local ones at
\* offset 0, and Math.ceil(n / 7) is (n + 6) div 7
getWeekNumber(date, tz) ==
  LET d0 == DateUTC(getFullYear(date, tz), getMonth(date, tz), getDate(date, tz))
      dayNum == IF getDay(d0, 0) = 0 THEN 7 ELSE getDay(d0, 0)
      d == setDate(d0, getDate(d0, 0) + 4 - dayNum, 0)
      yearStart == DateUTC(getFullYear(d, 0), 0, 1)
  IN ((d - yearStart) \div MinutesPerDay + 1 + 6) \div 7

\* formatDate(date): date.toISOString().split('T')[0], the UTC calendar day
formatDate(date) ==
  LET c == CivilFromDays(date \div MinutesPerDay)
  IN DateText(c.y, c.m, c.d)

---------------------------------------------------------------------------
(* Routing and the three pipelines of POST /webhook/email *)

NieuwsbriefMarker == <<"n", "i", "e", "u", "w", "s", "b", "r", "i", "e", "f", "i", "t", "e", "m", "@">>

EventsMarker == <<"e", "v", "e", "n", "t", "s", "@">>

\* the chain with the events marker tested first
RouteEventsFirst(recipient) ==
  IF Includes(recipient, EventsMarker) THEN "event"
  ELSE IF Includes(recipient, NieuwsbriefMarker) THEN "newsletter"
  ELSE "inbox"

\* the if / else-if chain on recipient = to.toLowerCase()
Route(recipient) ==
  IF Includes(recipient, NieuwsbriefMarker) THEN "newsletter"
  ELSE IF Includes(recipient, EventsMarker) THEN "event"
  ELSE "inbox"

TestSender == <<"t", "e", "s", "t", "@", "e", "x", "a", "m", "p", "l", "e", ".", "c", "o", "m">>

Iemand == <<"I", "e", "m", "a", "n", "d">>

CiiicDomain == <<"@", "c", "i", "i", "i", "c", ".", "n", "l">>

\* s.split(sep)[0] for a one-character separator
SplitFirst(s, sep) ==
  IF IndexFrom(s, 1, sep) = 0 THEN s ELSE SubSeq(s, 1, IndexFrom(s, 1, sep) - 1)

capitalize(s) == IF s = <<>> THEN s ELSE <<UpperChar(Head(s))>> \o Tail(s)

\* getFriendlyName(email); Threw when email has no toLowerCase method
getFriendlyName(email) ==
  IF ~Truthy(email) \/ email = Str(Unknown) THEN Str(Iemand)
  ELSE IF email.t # "string" THEN Threw
  ELSE LET emailLower == ToLowerCase(email.s)
           localPart == SplitFirst(emailLower, "@")
           spaced == [i \in 1..Len(localPart) |->
                        IF localPart[i] \in {".", "_"} THEN " " ELSE localPart[i]]
       IN IF Includes(emailLower, CiiicDomain) THEN Str(capitalize(localPart))
          ELSE Str(capitalize(SplitFirst(spaced, " ")))

\* the guard without the comparison to 'unknown'
ErrorMailGuardAnySender(from) == Truthy(from)

\* from && from !== 'unknown'
ErrorMailGuard(from) == Truthy(from) /\ from # Str(Unknown)

\* from && from !== 'unknown' && from !== 'test@example.com'
ConfirmationGuard(from) ==
  Truthy(from) /\ from # Str(Unknown) /\ from # Str(TestSender)

DefaultNewsletterTitle == <<"N", "i", "e", "u", "w", "s", "b", "r", "i", "e", "f", " ", "i", "t", "e", "m">>

DefaultInboxTitle == <<"I", "n", "b", "o", "x", " ", "i", "t", "e", "m">>

UntitledEvent == <<"U", "n", "t", "i", "t", "l", "e", "d", " ", "E", "v", "e", "n", "t">>

\* parsedData.title || subject || 'Nieuwsbrief item' and
\* parsedData.name || subject || 'Inbox item'
TitleFor(pipeline, data, subject) ==
  Or(Or(data.name, subject),
     Str(IF pipeline = "newsletter" THEN DefaultNewsletterTitle
         ELSE DefaultInboxTitle))

NoEnvelope == Envelope("none", Undefined, Undefined, Undefined, Undefined)

\* an extraction result: the fields of the parsed JSON the pipelines read
\* (name is eventName / title / name, senderName is senderName / forwarderName)
Data(name, date, time, endDate, endTime, senderName) ==
  [name |-> name, date |-> date, time |-> time, endDate |-> endDate,
   endTime |-> endTime, senderName |-> senderName]

NoData == Data(Undefined, Undefined, Undefined, Undefined, Undefined, Undefined)

NoResponse ==
  [status |-> 0, success |-> FALSE, type |-> "none", title |-> Undefined,
   page |-> 0, error |-> "none"]

\* res.json / res.status(n).json bodies
Success(type, title, page) ==
  [status |-> 200, success |-> TRUE, type |-> type, title |-> title,
   page |-> page, error |-> "none"]

\* every failure answered with status 500
FailureAlways500(status, error) ==
  [status |-> 500, success |-> FALSE, type |-> "none", title |-> Undefined,
   page |-> 0, error |-> error]

Failure(status, error) ==
  [status |-> status, success |-> FALSE, type |-> "none", title |-> Undefined,
   page |-> 0, error |-> error]

\* a request as it arrives; norm is what parseInboundEmail returns for the
\* payload, a function of the payload alone that is kept beside it
NewRequest(p) ==
  [payload |-> p, norm |-> parseInboundEmail(p), pc |-> "received", env |-> NoEnvelope, pipeline |-> "none",
   data |-> NoData, title |-> Undefined, link |-> 0, page |-> 0,
   calls |-> <<>>, resp |-> NoResponse, sent |-> 0]

Call(name, outcome) == [call |-> name, outcome |-> outcome]

\* the request r after one more external call has been started
Await(q, name) == [q EXCEPT !.pc = name]

\* the request after the response has been written
Respond(q, response) ==
  [q EXCEPT !.pc = "done", !.resp = response, !.sent = q.sent + 1]

---------------------------------------------------------------------------
(* The inputs the model draws from *)

AddrPlain == <<"a", "@", "x", ".", "n", "l">>

AddrNamed == <<"J", " ", "<", "a", "@", "x", ".", "n", "l", ">">>

RcptEvents == <<"e", "v", "e", "n", "t", "s", "@", "x", ".", "n", "l">>

RcptNews == <<"n", "i", "e", "u", "w", "s", "b", "r", "i", "e", "f", "i", "t", "e", "m", "@", "x", ".", "n", "l">>

RcptOther == <<"i", "n", "f", "o", "@", "x", ".", "n", "l">>

\* recipients holding both markers, in either order
RcptBothEN == RcptEvents \o <<",">> \o RcptNews

RcptBothNE == RcptNews \o <<",">> \o RcptEvents

RcptNamed == <<"E", " ", "<", "e", "v", "e", "n", "t", "s", "@", "x", ".", "n", "l", ">">>

ToUpperCase(s) == [i \in 1..Len(s) |-> UpperChar(s[i])]

\* every other character in upper case
MixedCase(s) ==
  [i \in 1..Len(s) |-> IF i % 2 = 1 THEN UpperChar(s[i]) ELSE s[i]]

TextBody == <<"h", "i">>

HtmlBody == <<"<", "p", ">", "h", "i", "<", "/", "p", ">">>

\* markup that strips to the empty string
HtmlEmpty == <<"<", "p", ">", "<", "b", "r", "/", ">", "<", "/", "p", ">">>

SubjectText == <<"R", "e">>

\* sender values: a bare address, 'Name <addr>', none, a non-string
FromValues == {Str(AddrPlain), Str(AddrNamed), Undefined, Obj}

\* recipient values every shape is tried with
ToValues == {Str(RcptEvents), Str(RcptNews), Str(RcptOther), Undefined}

\* recipient values tried with the default sender and body
ToSpecial ==
  {Str(RcptBothEN), Str(RcptBothNE), Str(ToUpperCase(RcptBothEN)),
   Str(MixedCase(RcptBothNE)), Str(ToUpperCase(RcptEvents)),
   Str(MixedCase(RcptNews)), Str(RcptNamed), Obj}

\* <<plain-text body, HTML body>>
BodyValues ==
  {<<Str(TextBody), Undefined>>, <<Undefined, Str(HtmlBody)>>,
   <<Undefined, Str(HtmlEmpty)>>, <<Undefined, Undefined>>}

Shapes == {"brevo", "brevo-text", "sendgrid", "mailgun", "postmark",
           "postmark-full", "generic", "generic-sender", "fallback",
           "fallback-message", "overlap"}

\* a payload of the given shape carrying sender f, recipient t, text b, HTML h
Shaped(shape, f, t, b, h) ==
  CASE shape = "brevo" ->
         \* Brevo as documented: From an object, To an array of objects
         Payload("Uuid" :> Str(<<"u">>) @@ "From" :> Obj @@ "From.Address" :> f
                 @@ "To" :> Obj @@ "To.0" :> Obj @@ "To.0.Address" :> t
                 @@ "Subject" :> Str(SubjectText) @@ "RawTextBody" :> b
                 @@ "RawHtmlBody" :> h)
    [] shape = "brevo-text" ->
         \* Brevo with From and To given as header text
         Payload("MessageId" :> Str(<<"m">>) @@ "From" :> f @@ "To" :> t
                 @@ "ExtractedMarkdownMessage" :> b @@ "RawHtmlBody" :> h)
    [] shape = "sendgrid" ->
         Payload("from" :> f @@ "to" :> t @@ "subject" :> Str(SubjectText)
                 @@ "text" :> b @@ "html" :> h)
    [] shape = "mailgun" ->
         Payload("sender" :> f @@ "recipient" :> t @@ "body-plain" :> b
                 @@ "body-html" :> h)
    [] shape = "postmark" ->
         Payload("From" :> f @@ "To" :> t @@ "Subject" :> Str(SubjectText)
                 @@ "TextBody" :> b @@ "HtmlBody" :> h)
    [] shape = "postmark-full" ->
         Payload("FromFull" :> Obj @@ "FromFull.Email" :> f
                 @@ "ToFull.0.Email" :> t @@ "TextBody" :> b @@ "HtmlBody" :> h)
    [] shape = "generic" ->
         Payload("from" :> f @@ "to" :> t @@ "subject" :> Str(SubjectText)
                 @@ "body" :> b @@ "html" :> h)
    [] shape = "generic-sender" ->
         Payload("sender" :> f @@ "recipient" :> t @@ "content" :> b
                 @@ "html" :> h)
    [] shape = "fallback" ->
         Payload("email" :> f @@ "to" :> t @@ "subject" :> Str(SubjectText)
                 @@ "body" :> b)
    [] shape = "fallback-message" ->
         Payload("from_email" :> f @@ "recipient" :> t @@ "message" :> b)
    [] shape = "overlap" ->
         \* satisfies the Brevo, SendGrid and generic predicates at once; the
         \* later shapes' fields hold other values
         Payload("Uuid" :> Str(<<"u">>) @@ "From" :> f @@ "To" :> Obj
                 @@ "To.0" :> t @@ "RawTextBody" :> b @@ "RawHtmlBody" :> h
                 @@ "from" :> Str(RcptOther) @@ "to" :> Str(AddrPlain)
                 @@ "subject" :> Str(SubjectText) @@ "text" :> Str(HtmlBody)
                 @@ "sender" :> Str(RcptOther) @@ "body" :> Str(SubjectText))

\* the payloads of one shape
PayloadsOf(sh) ==
  {Shaped(sh, f, t, bh[1], bh[2]) :
     f \in FromValues, t \in ToValues, bh \in BodyValues}
  \cup {Shaped(sh, Str(AddrPlain), t, Str(TextBody), Undefined) : t \in ToSpecial}

EmptyPayload == Payload(<<>>)

Payloads == UNION {PayloadsOf(sh) : sh \in Shapes} \cup {EmptyPayload}

EventName == <<"M", "e", "e", "t", "u", "p">>

EventDay == DateText(2025, 3, 15)

EventTime == TimeText(18, 0)

PersonName == <<"J", "a", "a", "p">>

\* what the extraction call can return for a pipeline
ExtractionResults(pipeline) ==
  IF pipeline = "event"
  THEN {Data(n, d, t, Undefined, Undefined, sn) :
          n \in {Str(EventName), Undefined},
          d \in {Str(EventDay), Undefined},
          t \in {Str(EventTime), Undefined},
          sn \in {Str(PersonName), Undefined}}
  ELSE {Data(n, Undefined, Undefined, Undefined, Undefined, sn) :
          n \in {Str(EventName), Undefined},
          sn \in {Str(PersonName), Undefined}}

\* the server's UTC offset, in minutes
ServerOffsets == {0, 120}

---------------------------------------------------------------------------
(* The handler of POST /webhook/email, one action per stretch of code       *)
(* between two awaits                                                      *)

ValidationError == "Could not extract event name or date from email"

NoBodyError == "No email body found"

\* the handler without the if (!body) return 400
ReceiveNoBodyCheck(r) ==
  /\ req[r].pc = "received"
  /\ LET q == req[r]
         env == q.norm
         q1 == [q EXCEPT !.env = env]
     IN req' = [req EXCEPT ![r] =
          IF env.threw THEN Respond(q, Failure(500, "TypeError"))
          ELSE IF env.to.t # "string" THEN Respond(q1, Failure(500, "TypeError"))
          ELSE Await([q1 EXCEPT !.pipeline = Route(ToLowerCase(env.to.s))],
                     "extract")]
  /\ UNCHANGED <<store, cal, zone>>

\* the server-local code from the start of the handler to its first await
Receive(r) ==
  /\ req[r].pc = "received"
  /\ LET q == req[r]
         env == q.norm
         q1 == [q EXCEPT !.env = env]
     IN req' = [req EXCEPT ![r] =
          IF env.threw THEN Respond(q, Failure(500, "TypeError"))
          ELSE IF ~Truthy(env.body) THEN Respond(q1, Failure(400, NoBodyError))
          ELSE IF env.to.t # "string" THEN Respond(q1, Failure(500, "TypeError"))
          ELSE Await([q1 EXCEPT !.pipeline = Route(ToLowerCase(env.to.s))],
                     "extract")]
  /\ UNCHANGED <<store, cal, zone>>

\* the pipelines with the create call of a newsletter item made without a
\* container lookup before it
AfterExtractNoLookup(q, data) ==
  LET q1 == [q EXCEPT !.data = data, !.calls = Append(@, Call("extract", "ok"))]
  IN IF q.pipeline = "event"
     THEN IF ~Truthy(data.name) \/ ~Truthy(data.date)
          THEN IF ErrorMailGuard(q.env.from)
               THEN Await(q1, "errmail")
               ELSE Respond(q1, Failure(500, ValidationError))
          ELSE Await([q1 EXCEPT !.title = data.name], "create")
     ELSE Await([q1 EXCEPT !.title = TitleFor(q.pipeline, data, q.env.subject)],
                "create")

\* processEmail / processNewsletterItem / processInboxItem from the parsed
\* extraction result to the next await
AfterExtract(q, data) ==
  LET q1 == [q EXCEPT !.data = data, !.calls = Append(@, Call("extract", "ok"))]
  IN IF q.pipeline = "event"
     THEN IF ~Truthy(data.name) \/ ~Truthy(data.date)
          THEN IF ErrorMailGuard(q.env.from)
               THEN Await(q1, "errmail")
               ELSE Respond(q1, Failure(500, ValidationError))
          ELSE Await([q1 EXCEPT !.title = data.name], "create")
     ELSE LET q2 == [q1 EXCEPT !.title = TitleFor(q.pipeline, data, q.env.subject)]
          IN IF q.pipeline = "newsletter" THEN Await(q2, "lookup")
             ELSE Await(q2, "create")

\* the extraction call throws (API error, or a reply that is not JSON)
ExtractThrows(r) ==
  /\ req[r].pc = "extract"
  /\ req' = [req EXCEPT ![r] =
       Respond([req[r] EXCEPT !.calls = Append(@, Call("extract", "throw"))],
               Failure(500, "extraction failed"))]
  /\ UNCHANGED <<store, cal, zone>>

\* sendErrorNotification(...).catch(...), then throw new Error(error)
ErrorMailReturns(r) ==
  /\ req[r].pc = "errmail"
  /\ \E outcome \in {"ok", "throw"} :
       req' = [req EXCEPT ![r] =
         Respond([req[r] EXCEPT !.calls = Append(@, Call("errmail", outcome))],
                 Failure(500, ValidationError))]
  /\ UNCHANGED <<store, cal, zone>>

\* findNewsletterItem inside createContentItem: a hit, no hit, or a query
\* error caught and turned into null
LookupReturns(r) ==
  /\ req[r].pc = "lookup"
  /\ \E outcome \in {"found", "none", "throw"} :
       req' = [req EXCEPT ![r] =
         Await([req[r] EXCEPT !.calls = Append(@, Call("lookup", outcome)),
                              !.link = IF outcome = "found" THEN 1 ELSE 0],
               "create")]
  /\ UNCHANGED <<store, cal, zone>>

\* the properties createEvent sends to notion.pages.create
EventRecord(id, r, data, tzone) ==
  [id |-> id, kind |-> "event", by |-> r,
   title |-> Or(data.name, Str(UntitledEvent)),
   date |-> buildDateProperty(data.date, data.time, data.endDate, data.endTime,
                              tzone),
   link |-> 0]

\* the properties createContentItem sends to notion.pages.create
ContentRecord(id, r, title, link) ==
  [id |-> id, kind |-> "newsletter", by |-> r,
   title |-> Or(title, Str(DefaultNewsletterTitle)),
   date |-> NoDate, link |-> link]

\* the properties createInboxItem sends to notion.pages.create
InboxRecord(id, r, title) ==
  [id |-> id, kind |-> "inbox", by |-> r, title |-> title, date |-> NoDate,
   link |-> 0]

NewRecord(id, r, q, tzone) ==
  IF q.pipeline = "event" THEN EventRecord(id, r, q.data, tzone)
  ELSE IF q.pipeline = "newsletter" THEN ContentRecord(id, r, q.title, q.link)
  ELSE InboxRecord(id, r, q.title)

\* eventData.senderName || getFriendlyName(from), and the like
SenderName(q) ==
  IF Truthy(q.data.senderName) THEN q.data.senderName
  ELSE getFriendlyName(q.env.from)

\* the code between the notification text being built and the next await
BeforeNotify(q) ==
  IF SenderName(q) = Threw THEN Respond(q, Failure(500, "TypeError"))
  ELSE Await(q, "notify")

\* the code after the created page is returned, to the next await
AfterCreate(q) ==
  IF q.pipeline = "event" THEN BeforeNotify(q) ELSE Await(q, "comment")

\* a record store that answers a create call for contents it already holds
\* with the page it holds
CreateReturnsDeduplicated(r) ==
  /\ req[r].pc = "create"
  /\ LET new == NewRecord(Cardinality(store) + 1, r, req[r], zone)
         same == {rec \in store : [rec EXCEPT !.id = 0, !.by = 0]
                                   = [new EXCEPT !.id = 0, !.by = 0]}
         id == IF same = {} THEN new.id ELSE (CHOOSE rec \in same : TRUE).id
         q == [req[r] EXCEPT !.calls = Append(@, Call("create", "ok")),
                             !.page = id]
     IN /\ store' = IF same = {} THEN store \cup {new} ELSE store
        /\ req' = [req EXCEPT ![r] = AfterCreate(q)]
  /\ UNCHANGED <<cal, zone>>

\* a handler that keeps the request in a variable shared by all requests:
\* the code after the create call sees whichever request was stored there
CreateReturnsSharedRequest(r) ==
  /\ req[r].pc = "create"
  /\ \E o \in {x \in DOMAIN req : req[x].pc # "received"} :
       LET id == Cardinality(store) + 1
           q == [req[r] EXCEPT !.calls = Append(@, Call("create", "ok")),
                               !.page = id]
       IN /\ store' = store \cup {NewRecord(id, r, req[o], zone)}
          /\ req' = [req EXCEPT ![r] = AfterCreate(q)]
  /\ UNCHANGED <<cal, zone>>

\* notion.pages.create returns the new page
CreateReturns(r) ==
  /\ req[r].pc = "create"
  /\ LET id == Cardinality(store) + 1
         q == [req[r] EXCEPT !.calls = Append(@, Call("create", "ok")),
                             !.page = id]
     IN /\ store' = store \cup {NewRecord(id, r, req[r], zone)}
        /\ req' = [req EXCEPT ![r] = AfterCreate(q)]
  /\ UNCHANGED <<cal, zone>>

\* a failed create call after which the notification is sent all the same
CreateThrowsNotified(r) ==
  /\ req[r].pc = "create"
  /\ req' = [req EXCEPT ![r] =
       Await([req[r] EXCEPT !.calls = Append(@, Call("create", "throw"))],
             "notify")]
  /\ UNCHANGED <<store, cal, zone>>

\* notion.pages.create throws
CreateThrows(r) ==
  /\ req[r].pc = "create"
  /\ req' = [req EXCEPT ![r] =
       Respond([req[r] EXCEPT !.calls = Append(@, Call("create", "throw"))],
               Failure(500, "create failed"))]
  /\ UNCHANGED <<store, cal, zone>>

\* addComment: a failure is caught inside addComment
CommentReturns(r) ==
  /\ req[r].pc = "comment"
  /\ \E outcome \in {"ok", "throw"} :
       req' = [req EXCEPT ![r] =
         BeforeNotify([req[r] EXCEPT !.calls = Append(@, Call("comment", outcome))])]
  /\ UNCHANGED <<store, cal, zone>>

\* the response after the last side-channel step
Finish(q) == Respond(q, Success(q.pipeline, q.title, q.page))

\* the notification followed by a confirmation email in all three pipelines
NotifyReturnsConfirmAll(r) ==
  /\ req[r].pc = "notify"
  /\ \E outcome \in {"ok", "non2xx", "throw"} :
       LET q == [req[r] EXCEPT !.calls = Append(@, Call("notify", outcome))]
       IN req' = [req EXCEPT ![r] =
            IF ConfirmationGuard(q.env.from) THEN Await(q, "confirm")
            ELSE Finish(q)]
  /\ UNCHANGED <<store, cal, zone>>

\* sendZapierNotification: 2xx, non-2xx, or fetch throwing; all end the same
NotifyReturns(r) ==
  /\ req[r].pc = "notify"
  /\ \E outcome \in {"ok", "non2xx", "throw"} :
       LET q == [req[r] EXCEPT !.calls = Append(@, Call("notify", outcome))]
       IN req' = [req EXCEPT ![r] =
            IF q.pipeline \in {"event", "newsletter"} /\ ConfirmationGuard(q.env.from)
            THEN Await(q, "confirm")
            ELSE Finish(q)]
  /\ UNCHANGED <<store, cal, zone>>

\* sendEventConfirmation / sendNewsletterItemConfirmation inside try / catch
ConfirmReturns(r) ==
  /\ req[r].pc = "confirm"
  /\ \E outcome \in {"ok", "throw"} :
       req' = [req EXCEPT ![r] =
         Finish([req[r] EXCEPT !.calls = Append(@, Call("confirm", outcome))])]
  /\ UNCHANGED <<store, cal, zone>>

\* the extraction call returns parsed JSON
ExtractReturns(r) ==
  /\ req[r].pc = "extract"
  /\ \E data \in ExtractionResults(req[r].pipeline) :
       req' = [req EXCEPT ![r] = AfterExtract(req[r], data)]
  /\ UNCHANGED <<store, cal, zone>>

---------------------------------------------------------------------------
(* One webhook request, from arrival to response *)

Requests == {1}

NoCal == [phase |-> "none"]

Init ==
  /\ req \in [Requests -> {NewRequest(p) : p \in Payloads}]
  /\ store = {}
  /\ cal = NoCal
  /\ zone \in ServerOffsets

Next ==
  \E r \in DOMAIN req :
    \/ Receive(r)
    \/ ExtractReturns(r)
    \/ ExtractThrows(r)
    \/ ErrorMailReturns(r)
    \/ LookupReturns(r)
    \/ CreateReturns(r)
    \/ CreateThrows(r)
    \/ CommentReturns(r)
    \/ NotifyReturns(r)
    \/ ConfirmReturns(r)

Spec == Init /\ [][Next]_vars

\* the payloads of the fair specification: three shapes, a text and a
\* non-text sender, the three pipelines and a non-text recipient, with and
\* without a body
FairPayloads ==
  {Shaped(sh, f, t, b, Undefined) :
     sh \in {"sendgrid", "mailgun", "fallback"}, f \in {Str(AddrPlain), Obj},
     t \in {Str(RcptEvents), Str(RcptNews), Str(RcptOther), Obj},
     b \in {Str(TextBody), Undefined}}

InitFair ==
  /\ req \in [Requests -> {NewRequest(p) : p \in FairPayloads}]
  /\ store = {}
  /\ cal = NoCal
  /\ zone \in ServerOffsets

\* every started external call returns or throws, and the handler's own
\* code runs to its next await
FairSpec == InitFair /\ [][Next]_vars /\ WF_vars(Next)

---------------------------------------------------------------------------
(* The same payload delivered twice to POST /webhook/email; the steps of   *)
(* the two requests interleave at their awaits                             *)

Deliveries == {1, 2}

\* one payload for each pipeline
TwicePayloads ==
  {Shaped("mailgun", Str(AddrPlain), t, Str(TextBody), Undefined) :
     t \in {Str(RcptEvents), Str(RcptNews), Str(RcptOther)}}

InitTwice ==
  /\ req \in {[r \in Deliveries |-> NewRequest(p)] : p \in TwicePayloads}
  /\ store = {}
  /\ cal = NoCal
  /\ zone \in ServerOffsets

SpecTwice == InitTwice /\ [][Next]_vars

---------------------------------------------------------------------------
(* Two different payloads delivered to POST /webhook/email at the same     *)
(* time; the steps of the two requests interleave at their awaits          *)

\* one payload for each pipeline, in three provider shapes
PairPayloads ==
  {Shaped("mailgun", Str(AddrPlain), Str(RcptEvents), Str(TextBody), Undefined),
   Shaped("sendgrid", Str(AddrNamed), Str(RcptNews), Str(TextBody), Undefined),
   Shaped("fallback", Str(AddrPlain), Str(RcptOther), Str(TextBody), Undefined)}

InitPair ==
  /\ req \in {[r \in Deliveries |-> NewRequest(IF r = 1 THEN p1 ELSE p2)] :
                p1 \in PairPayloads, p2 \in PairPayloads}
  /\ req[1].payload # req[2].payload
  /\ store = {}
  /\ cal = NoCal
  /\ zone \in ServerOffsets

SpecPair == InitPair /\ [][Next]_vars

---------------------------------------------------------------------------
(* One request to POST /webhook/test, from arrival to response *)

NoContentError == "Please provide email content in body, email, or content field"

\* req.body of the test endpoint: from, to, subject and the three content
\* fields
TestPayloads ==
  {Payload("from" :> f @@ "to" :> t @@ "subject" :> sj @@ "body" :> b
           @@ "email" :> e @@ "content" :> c) :
     f \in {Str(AddrPlain), Undefined, Obj},
     t \in {Str(RcptEvents), Str(ToUpperCase(RcptEvents)), Str(RcptNews),
            Str(RcptOther), Undefined, Obj},
     sj \in {Str(SubjectText), Undefined},
     b \in {Str(TextBody), Undefined},
     e \in {Str(TextBody), Undefined},
     c \in {Str(TextBody), Undefined}}

\* a request as it arrives at the test endpoint
TestRequest(p) == [NewRequest(p) EXCEPT !.pc = "test-received"]

\* the envelope the test endpoint hands to a pipeline
TestEnvelope(p) ==
  Envelope("test", Or(p["from"], Str(TestSender)), Or(p["to"], EmptyStr),
           p["subject"], Or(Or(p["body"], p["email"]), p["content"]))

\* the test endpoint with 'events@' as the recipient of a request without to
TestReceiveEventDefault(r) ==
  /\ req[r].pc = "test-received"
  /\ LET q == req[r]
         env == TestEnvelope(q.payload)
         q1 == [q EXCEPT !.env = env]
     IN IF env.to.t # "string"
        THEN \/ req' = [req EXCEPT ![r] = Respond(q, Failure(500, "TypeError"))]
             \/ req' = [req EXCEPT ![r] = Await(q, "unanswered")]
        ELSE req' = [req EXCEPT ![r] =
               IF ~Truthy(env.body) THEN Respond(q1, Failure(400, NoContentError))
               ELSE Await([q1 EXCEPT !.pipeline =
                             IF env.to.s = <<>> THEN "event"
                             ELSE Route(ToLowerCase(env.to.s))],
                          "extract")]
  /\ UNCHANGED <<store, cal, zone>>

\* the handler of POST /webhook/test from its start to its first await; the
\* recipient is lower-cased before the try block, so a to without
\* toLowerCase rejects the handler's promise outside any catch: the framework
\* answers 500 or the request stays unanswered, by its version
TestReceive(r) ==
  /\ req[r].pc = "test-received"
  /\ LET q == req[r]
         env == TestEnvelope(q.payload)
         q1 == [q EXCEPT !.env = env]
     IN IF env.to.t # "string"
        THEN \/ req' = [req EXCEPT ![r] = Respond(q, Failure(500, "TypeError"))]
             \/ req' = [req EXCEPT ![r] = Await(q, "unanswered")]
        ELSE req' = [req EXCEPT ![r] =
               IF ~Truthy(env.body) THEN Respond(q1, Failure(400, NoContentError))
               ELSE Await([q1 EXCEPT !.pipeline = Route(ToLowerCase(env.to.s))],
                          "extract")]
  /\ UNCHANGED <<store, cal, zone>>

InitTest ==
  /\ req \in [Requests -> {TestRequest(p) : p \in TestPayloads}]
  /\ store = {}
  /\ cal = NoCal
  /\ zone \in ServerOffsets

NextTest ==
  \E r \in DOMAIN req :
    \/ TestReceive(r)
    \/ ExtractReturns(r)
    \/ ExtractThrows(r)
    \/ ErrorMailReturns(r)
    \/ LookupReturns(r)
    \/ CreateReturns(r)
    \/ CreateThrows(r)
    \/ CommentReturns(r)
    \/ NotifyReturns(r)
    \/ ConfirmReturns(r)

SpecTest == InitTest /\ [][NextTest]_vars

---------------------------------------------------------------------------
(* The date-range composer on its own: buildDateProperty applied to one    *)
(* set of inputs on a server with UTC offset zone                          *)

FirstYear == 2024

NumYears == 2

Years == FirstYear..(FirstYear + NumYears - 1)

\* the days around both transitions, and days far from them
DayInputs ==
  {<<y, m, d>> : y \in Years, m \in {3, 10}, d \in 24..31}
  \cup {<<y, md[1], md[2]>> : y \in Years, md \in {<<1, 1>>, <<7, 1>>, <<12, 31>>}}

DateInputs == {Str(DateText(x[1], x[2], x[3])) : x \in DayInputs}

TimeInputs ==
  {Str(TimeText(hm[1], hm[2])) :
     hm \in {<<0, 30>>, <<1, 59>>, <<2, 0>>, <<2, 59>>, <<3, 0>>, <<18, 0>>}}

EndDateInputs ==
  {Str(DateText(y, md[1], md[2])) :
     y \in Years, md \in {<<3, 15>>, <<3, 31>>, <<10, 26>>, <<10, 27>>}}

DateServerOffsets == {-300, 0, 60, 120}

CalInput(sd, st, ed, et) ==
  [phase |-> "input", startDate |-> sd, startTime |-> st, endDate |-> ed,
   endTime |-> et, result |-> NoDate]

InitDate ==
  /\ req = <<>>
  /\ store = {}
  /\ zone \in DateServerOffsets
  /\ cal \in {CalInput(sd, st, ed, et) :
                sd \in DateInputs \cup {Undefined},
                st \in TimeInputs \cup {Undefined},
                ed \in EndDateInputs \cup {Undefined},
                et \in {Str(TimeText(2, 30)), Str(TimeText(18, 0)), Undefined}}

\* createEvent builds the date property of the event
Compose ==
  /\ cal.phase = "input"
  /\ cal' = [cal EXCEPT !.phase = "composed",
                        !.result = buildDateProperty(cal.startDate, cal.startTime,
                                                     cal.endDate, cal.endTime, zone)]
  /\ UNCHANGED <<req, store, zone>>

NextDate == Compose

SpecDate == InitDate /\ [][NextDate]_vars

---------------------------------------------------------------------------
(* The publication day on its own: the clock read on a server with UTC     *)
(* offset zone, then the next Thursday, its week number and its text       *)

FirstWeekYear == 2020

NumWeekYears == 8

\* every day of the years looked at
ClockDays ==
  DaysFromCivil(FirstWeekYear, 1, 1)
    ..(DaysFromCivil(FirstWeekYear + NumWeekYears, 1, 1) - 1)

\* wall-clock times of day, in minutes: 00:30, 12:00, 23:30
ClockTimes == {30, 12 * 60, 23 * 60 + 30}

Clock(today) ==
  [phase |-> "clock", today |-> today, thursday |-> 0, weekNumber |-> 0,
   publicatieDatum |-> <<>>]

InitWeek ==
  /\ req = <<>>
  /\ store = {}
  /\ zone \in DateServerOffsets
  /\ cal \in {Clock(day * MinutesPerDay + time - zone) :
                day \in ClockDays, time \in ClockTimes}

\* createContentItem: nextThursday, weekNumber and publicatieDatum
Schedule ==
  /\ cal.phase = "clock"
  /\ LET nextThursday == getNextThursday(cal.today, zone)
     IN cal' = [cal EXCEPT !.phase = "scheduled",
                           !.thursday = nextThursday,
                           !.weekNumber = getWeekNumber(nextThursday, zone),
                           !.publicatieDatum = formatDate(nextThursday)]
  /\ UNCHANGED <<req, store, zone>>

\* getWeekNumber applied to the day the clock shows
WeekOfToday ==
  /\ cal.phase = "clock"
  /\ cal' = [cal EXCEPT !.phase = "numbered",
                        !.weekNumber = getWeekNumber(cal.today, zone)]
  /\ UNCHANGED <<req, store, zone>>

NextWeek == Schedule \/ WeekOfToday

SpecWeek == InitWeek /\ [][NextWeek]_vars

---------------------------------------------------------------------------
(* The two boundaries of getAmsterdamOffset on their own, for one year on  *)
(* a server with UTC offset zone                                           *)

FirstDstYear == 1970

NumDstYears == 130

DstYears == FirstDstYear..(FirstDstYear + NumDstYears - 1)

InitDst ==
  /\ req = <<>>
  /\ store = {}
  /\ zone \in DateServerOffsets
  /\ cal \in {[phase |-> "year", year |-> y, dstStart |-> 0, dstEnd |-> 0] :
                y \in DstYears}

\* getAmsterdamOffset computes dstStart and dstEnd of the date's year
Boundaries ==
  /\ cal.phase = "year"
  /\ cal' = [cal EXCEPT !.phase = "bounded",
                        !.dstStart = Boundary(cal.year, 2, 2, zone),
                        !.dstEnd = Boundary(cal.year, 9, 3, zone)]
  /\ UNCHANGED <<req, store, zone>>

NextDst == Boundaries

SpecDst == InitDst /\ [][NextDst]_vars

---------------------------------------------------------------------------
(* stripHtml on its own: applied to one HTML text                          *)

MaxTokens == 3

\* the pieces the HTML texts are put together from
HtmlTokens ==
  {Amp, Lt, Gt, Nbsp, <<"l", "t", ";">>, <<"b">>, <<" ">>,
   <<"<", "b", ">">>, <<"<", "B", "R", " ", "/", ">">>, <<"<", "/", "P", ">">>}

RECURSIVE Concat(_)
Concat(pieces) ==
  IF pieces = <<>> THEN <<>> ELSE Head(pieces) \o Concat(Tail(pieces))

HtmlInputs ==
  {Concat(pieces) : pieces \in UNION {[1..n -> HtmlTokens] : n \in 0..MaxTokens}}

InitHtml ==
  /\ req = <<>>
  /\ store = {}
  /\ zone = 0
  /\ cal \in {[phase |-> "html", html |-> Str(h), text |-> Undefined] :
                h \in HtmlInputs}

\* a provider branch of parseInboundEmail strips its HTML field
Strip ==
  /\ cal.phase = "html"
  /\ cal' = [cal EXCEPT !.phase = "stripped", !.text = stripHtml(cal.html)]
  /\ UNCHANGED <<req, store, zone>>

NextHtml == Strip

SpecHtml == InitHtml /\ [][NextHtml]_vars

---------------------------------------------------------------------------
(* Properties *)

\* the request has completed a call of the given name
Has(q, name) == \E i \in 1..Len(q.calls) : q.calls[i].call = name

HasOutcome(q, name, outcome) ==
  \E i \in 1..Len(q.calls) : q.calls[i] = Call(name, outcome)

\* the records the request has created
RecordsOf(r) == {rec \in store : rec.by = r}

\* the marker occurs in the recipient text, whatever the letter case
Mentions(to, marker) == \E i \in 1..Len(to) : MatchAtCI(to, i, marker)

\* the request got past the body check and the lower-casing of to
Routed(q) ==
  LET e == parseInboundEmail(q.payload)
  IN q.pc # "received" /\ ~e.threw /\ Truthy(e.body) /\ e.to.t = "string"

\* C1: a routed request runs exactly the pipeline the ordered chain on the
\* lower-cased recipient selects (newsletter marker first, then the events
\* marker, else inbox), the newsletter pipeline when both markers occur in any
\* order and case; what the request calls, creates and answers belongs to that
\* one pipeline, and a request that is not routed runs none.
C1_RoutingChain ==
  \A r \in DOMAIN req :
    LET q == req[r]
        to == q.env.to.s
    IN /\ Routed(q) =>
            /\ Mentions(to, NieuwsbriefMarker) => q.pipeline = "newsletter"
            /\ ~Mentions(to, NieuwsbriefMarker) /\ Mentions(to, EventsMarker)
                 => q.pipeline = "event"
            /\ ~Mentions(to, NieuwsbriefMarker) /\ ~Mentions(to, EventsMarker)
                 => q.pipeline = "inbox"
       /\ ~Routed(q) => q.pipeline = "none" /\ q.calls = <<>>
       /\ \A rec \in RecordsOf(r) : rec.kind = q.pipeline
       /\ q.resp.status = 200 => q.resp.type = q.pipeline
       /\ Has(q, "lookup") => q.pipeline = "newsletter"
       /\ Has(q, "errmail") => q.pipeline = "event"
       /\ Has(q, "comment") => q.pipeline \in {"newsletter", "inbox"}

C1_Witness ==
  \E r \in DOMAIN req :
    /\ req[r].env.to = Str(ToUpperCase(RcptBothEN))
    /\ req[r].pipeline = "newsletter"
    /\ req[r].resp.status = 200

\* the extraction result of an Event request lacks the name or the date
EventInvalid(q) ==
  /\ q.pipeline = "event"
  /\ HasOutcome(q, "extract", "ok")
  /\ (~Truthy(q.data.name) \/ ~Truthy(q.data.date))

\* the sender is a non-empty value other than the text 'unknown'
KnownSender(q) ==
  \/ q.env.from.t = "object"
  \/ (q.env.from.t = "string" /\ q.env.from.s \notin {<<>>, Unknown})

\* what C2 says of every outcome but the error mail
C2_Fatal(q) ==
  /\ ~Has(q, "create") /\ ~Has(q, "notify") /\ ~Has(q, "confirm")
  /\ q.page = 0
  /\ q.resp.status = 500
  /\ q.resp.error = ValidationError

\* C2 as stated: an Event request whose extraction lacks the name or the
\* date creates nothing, notifies nobody, attempts the error mail to the
\* sender and is answered 500 with the validation message.
C2_AsStated ==
  \A r \in DOMAIN req :
    (EventInvalid(req[r]) /\ req[r].pc = "done")
      => C2_Fatal(req[r]) /\ Has(req[r], "errmail")

\* C2 amended: as stated, but the error mail is attempted exactly when the
\* sender is a non-empty value other than 'unknown'; its failure changes
\* neither the status nor the message.
C2_ValidationFatal ==
  \A r \in DOMAIN req :
    /\ (EventInvalid(req[r]) /\ req[r].pc = "done")
         => /\ C2_Fatal(req[r])
            /\ Has(req[r], "errmail") <=> KnownSender(req[r])
    /\ EventInvalid(req[r]) => RecordsOf(r) = {} /\ req[r].pc \in {"errmail", "done"}

C2_Witness ==
  \E r \in DOMAIN req :
    /\ EventInvalid(req[r])
    /\ HasOutcome(req[r], "errmail", "throw")
    /\ req[r].resp.status = 500

\* a side-channel step of the request failed
SideChannelFailed(q) ==
  \/ HasOutcome(q, "comment", "throw")
  \/ HasOutcome(q, "notify", "throw")
  \/ HasOutcome(q, "notify", "non2xx")
  \/ HasOutcome(q, "confirm", "throw")

\* C3 as stated: after a successful create, a failed side-channel step does
\* not show: the answer is 200 with the created record's URL, the record
\* stays, and the pipeline's remaining side-channel steps are attempted.
C3_AsStated ==
  \A r \in DOMAIN req :
    LET q == req[r]
    IN (q.pc = "done" /\ HasOutcome(q, "create", "ok") /\ SideChannelFailed(q))
         => /\ q.resp.status = 200 /\ q.resp.success
            /\ q.resp.page = q.page
            /\ \E rec \in store : rec.id = q.page /\ rec.by = r
            /\ Has(q, "notify")
            /\ q.pipeline # "event" => Has(q, "comment")
            /\ (q.pipeline # "inbox" /\ ConfirmationGuard(q.env.from))
                 => Has(q, "confirm")

\* C4 as stated: a request answered 500 has created no record.
C4_AsStated ==
  \A r \in DOMAIN req :
    req[r].resp.status = 500 => req[r].page = 0 /\ RecordsOf(r) = {}

\* the pipeline's last mandatory step, the notification, has returned
Completed(q) == q.pipeline # "none" /\ Has(q, "notify")

C5_Classified ==
  \A r \in DOMAIN req :
    LET q == req[r]
        e == parseInboundEmail(q.payload)
    IN /\ q.sent <= 1
       /\ q.pc = "done" <=> q.sent = 1
       /\ q.pc = "done" =>
            /\ q.resp.status \in {200, 400, 500}
            /\ q.resp.status = 400 <=> (~e.threw /\ ~Truthy(e.body))
            /\ q.resp.status = 200 <=> Completed(q)
            /\ q.resp.status = 200
                 => q.resp.success /\ q.resp.type = q.pipeline
            /\ q.resp.status # 200 => ~q.resp.success

\* C5: when every external call returns or throws, every request is
\* answered, once; the answer is 400 exactly when the normalized body is
\* empty, 200 with success and the pipeline type exactly when the pipeline
\* ran to its end, and 500 without success otherwise.
C5_OneResponse ==
  /\ \A r \in Requests : <>(req[r].pc = "done")
  /\ []C5_Classified

C5_Witness ==
  \E r \in DOMAIN req :
    /\ req[r].pc = "done"
    /\ req[r].resp.status = 500
    /\ HasOutcome(req[r], "create", "throw")

MatcherOrder == <<"brevo", "sendgrid", "mailgun", "postmark", "generic", "fallback">>

Matches(name, p) ==
  CASE name = "brevo" -> BrevoPred(p)
    [] name = "sendgrid" -> SendGridPred(p)
    [] name = "mailgun" -> MailgunPred(p)
    [] name = "postmark" -> PostmarkPred(p)
    [] name = "generic" -> GenericPred(p)
    [] name = "fallback" -> TRUE

ExtractBy(name, p) ==
  CASE name = "brevo" -> BrevoExtract(p)
    [] name = "sendgrid" -> SendGridExtract(p)
    [] name = "mailgun" -> MailgunExtract(p)
    [] name = "postmark" -> PostmarkExtract(p)
    [] name = "generic" -> GenericExtract(p)
    [] name = "fallback" -> FallbackExtract(p)

FirstMatcher(p) ==
  MatcherOrder[CHOOSE i \in 1..Len(MatcherOrder) :
                 /\ Matches(MatcherOrder[i], p)
                 /\ \A j \in 1..(i - 1) : ~Matches(MatcherOrder[j], p)]

\* C6: the envelope of a request is, field for field, what the extractor of
\* the first matcher in the order Brevo, SendGrid, Mailgun, Postmark,
\* generic, fallback yields for its payload, whichever later matchers also
\* accept the payload.
C6_FirstMatcherWins ==
  \A r \in DOMAIN req :
    LET q == req[r]
        e == ExtractBy(FirstMatcher(q.payload), q.payload)
    IN q.pc # "received" =>
         IF e.threw THEN q.env = NoEnvelope /\ q.resp.status = 500
         ELSE q.env = e

C6_Witness ==
  \E r \in DOMAIN req :
    LET q == req[r]
    IN /\ q.pc = "done"
       /\ BrevoPred(q.payload) /\ SendGridPred(q.payload) /\ GenericPred(q.payload)
       /\ q.env.matcher = "brevo"
       /\ q.env.to = Str(RcptEvents)
       /\ SendGridExtract(q.payload).to # q.env.to

\* C7: a request that runs a pipeline has a non-empty body; a request whose
\* normalized body is empty or absent is answered 400 at once, runs no
\* pipeline, calls no collaborator and creates nothing.
C7_BodyNonEmpty ==
  \A r \in DOMAIN req :
    LET q == req[r]
        e == parseInboundEmail(q.payload)
    IN /\ q.pipeline # "none" => Truthy(q.env.body)
       /\ q.pc \notin {"received", "done"} => Truthy(q.env.body)
       /\ (q.pc # "received" /\ ~e.threw /\ ~Truthy(e.body))
            => /\ q.pc = "done" /\ q.resp.status = 400
               /\ q.pipeline = "none"
               /\ q.calls = <<>>
               /\ RecordsOf(r) = {}

C7_Witness ==
  \E r \in DOMAIN req :
    /\ req[r].resp.status = 400
    /\ req[r].env.matcher = "postmark"
    /\ req[r].env.body = EmptyStr

MatchesNoShape(p) ==
  ~(BrevoPred(p) \/ SendGridPred(p) \/ MailgunPred(p) \/ PostmarkPred(p)
      \/ GenericPred(p))

FallbackFields == <<"body", "text", "content", "message">>

\* the first non-empty of body, text, content, message, else the serialized
\* payload
FirstTextOrSerialized(p) ==
  IF \E i \in 1..Len(FallbackFields) : Truthy(p[FallbackFields[i]])
  THEN p[FallbackFields[CHOOSE i \in 1..Len(FallbackFields) :
                          /\ Truthy(p[FallbackFields[i]])
                          /\ \A j \in 1..(i - 1) : ~Truthy(p[FallbackFields[j]])]]
  ELSE Serialize(p)

\* C8: for a payload that matches none of the five shapes normalization
\* yields an envelope whose body is non-empty, namely the first non-empty of
\* body, text, content, message or else the serialized payload, and the
\* request is not answered 400.
C8_FallbackBody ==
  \A r \in DOMAIN req :
    LET q == req[r]
    IN (q.pc # "received" /\ MatchesNoShape(q.payload))
         => /\ q.env # NoEnvelope
            /\ q.env.body.t = "string" /\ q.env.body.s # <<>>
            /\ q.env.body = FirstTextOrSerialized(q.payload)
            /\ q.resp.status # 400

C8_Witness ==
  \E r \in DOMAIN req :
    /\ req[r].payload = EmptyPayload
    /\ req[r].env.body = Str(<<"{", "}">>)
    /\ req[r].pc = "extract"

TextFields == {"RawTextBody", "ExtractedMarkdownMessage", "text", "body-plain",
               "TextBody", "body", "content", "message"}

HtmlFields == {"RawHtmlBody", "html", "body-html", "HtmlBody"}

\* position i of s lies inside a tag <...>
InsideTag(s, i) ==
  \E a \in 1..i, b \in i..Len(s) :
    /\ s[a] = "<" /\ s[b] = ">" /\ b > a + 1
    /\ \A k \in a..(b - 1) : s[k] # ">"

\* s is tags and white space only
MarkupOnly(s) == \A i \in 1..Len(s) : IsSpace(s[i]) \/ InsideTag(s, i)

\* no field of the payload holds text: the text fields are absent or empty,
\* the HTML fields absent or markup without text
NoText(p) ==
  /\ \A k \in TextFields : ~Truthy(p[k])
  /\ \A k \in HtmlFields :
       ~Truthy(p[k]) \/ (p[k].t = "string" /\ MarkupOnly(p[k].s))

LastSunday(y, m) ==
  CHOOSE d \in 1..31 :
    /\ WeekdayOfDays(DaysFromCivil(y, m, d)) = 0
    /\ \A e \in (d + 1)..31 : WeekdayOfDays(DaysFromCivil(y, m, e)) # 0

\* minutes from 1970-01-01 00:00 on the wall clock to the given wall-clock
\* date and time
WallClock(y, m, d, h, mi) == DaysFromCivil(y, m, d) * 24 * 60 + h * 60 + mi

\* the local date and time lies from the last Sunday of March 02:00
\* (inclusive) to the last Sunday of October 03:00 (exclusive) of its year
InSummerTime(date, time) ==
  LET y == ParseInt(SubSeq(date, 1, 4))
      at == WallClock(y, ParseInt(SubSeq(date, 6, 7)), ParseInt(SubSeq(date, 9, 10)),
                      ParseInt(SubSeq(time, 1, 2)), ParseInt(SubSeq(time, 4, 5)))
  IN /\ at >= WallClock(y, 3, LastSunday(y, 3), 2, 0)
     /\ at < WallClock(y, 10, LastSunday(y, 10), 3, 0)

ExpectedOffset(date, time) == IF InSummerTime(date, time) THEN Plus2 ELSE Plus1

\* the last six characters of a composed value
OffsetOf(s) == SubSeq(s, Len(s) - 5, Len(s))

\* C10 as stated: a composed start or end that carries a time has offset
\* +02:00 exactly when its own local date and time lies in the summer-time
\* interval of its year, else +01:00, the end by the end's own date.
C10_AsStated ==
  (cal.phase = "composed" /\ ~cal.result.isNull) =>
    /\ Truthy(cal.startTime)
         => OffsetOf(cal.result.start.s)
              = ExpectedOffset(cal.startDate.s, cal.startTime.s)
    /\ (Truthy(cal.endTime) /\ Truthy(cal.result.end))
         => OffsetOf(cal.result.end.s)
              = ExpectedOffset(Or(cal.endDate, cal.startDate).s, cal.endTime.s)

\* the composed end differs from the composed start: one carries a time and
\* the other does not, or their dates differ, or their times differ
EndDiffers(c) ==
  \/ Truthy(c.startTime) # Truthy(c.endTime)
  \/ Or(c.endDate, c.startDate) # c.startDate
  \/ (Truthy(c.endTime) /\ c.endTime # c.startTime)

\* C11: with a start date, the composed range has an end exactly when an
\* endDate or an endTime was supplied and the composed end differs from the
\* composed start; endDate equal to startDate with no times, and endTime
\* equal to startTime with no endDate, give no end.
C11_EndPresent ==
  (cal.phase = "composed" /\ Truthy(cal.startDate)) =>
    /\ Truthy(cal.result.end)
         <=> ((Truthy(cal.endDate) \/ Truthy(cal.endTime)) /\ EndDiffers(cal))
    /\ Truthy(cal.result.end) => cal.result.end # cal.result.start
    /\ (cal.endDate = cal.startDate /\ ~Truthy(cal.startTime) /\ ~Truthy(cal.endTime))
         => cal.result.end = Undefined
    /\ (cal.endTime = cal.startTime /\ ~Truthy(cal.endDate))
         => cal.result.end = Undefined

C11_Witness ==
  /\ cal.phase = "composed"
  /\ Truthy(cal.startDate) /\ Truthy(cal.startTime)
  /\ cal.endTime = cal.startTime /\ ~Truthy(cal.endDate)
  /\ cal.result.end = Undefined

\* C12: the composer always returns a value: without a startDate the
\* no-date marker, whatever the other three inputs; with a startDate and no
\* startTime the bare startDate; with a startTime the startDate, 'T', the
\* startTime, ':00' and an offset.
C12_StartComposed ==
  cal.phase = "composed" =>
    /\ ~Truthy(cal.startDate) => cal.result = NoDate
    /\ Truthy(cal.startDate) =>
         /\ ~cal.result.isNull
         /\ ~Truthy(cal.startTime) => cal.result.start = cal.startDate
         /\ Truthy(cal.startTime) =>
              \E offset \in {Plus1, Plus2} :
                cal.result.start.s
                  = cal.startDate.s \o <<"T">> \o cal.startTime.s
                      \o <<":", "0", "0">> \o offset

C12_Witness ==
  /\ cal.phase = "composed"
  /\ ~Truthy(cal.startDate) /\ Truthy(cal.startTime) /\ Truthy(cal.endDate)
  /\ Truthy(cal.endTime)
  /\ cal.result = NoDate

MondayOf(z) == z - ((WeekdayOfDays(z) + 6) % 7)

\* the Monday of the week that holds the first Thursday of year y
WeekOneMonday(y) ==
  MondayOf(CHOOSE z \in DaysFromCivil(y, 1, 1)..DaysFromCivil(y, 1, 7) :
             WeekdayOfDays(z) = 4)

\* the ISO year a day belongs to
IsoYear(z) ==
  CHOOSE y \in (CivilFromDays(z).y - 1)..(CivilFromDays(z).y + 1) :
    WeekOneMonday(y) <= z /\ z < WeekOneMonday(y + 1)

\* the ISO-8601 week number of a day
IsoWeek(z) == (MondayOf(z) - WeekOneMonday(IsoYear(z))) \div 7 + 1

\* C14: getWeekNumber returns the ISO-8601 week number of the date's
\* calendar day, a number in 1..53: 52 or 53 for a day of early January that
\* belongs to the previous ISO year, 1 for a day of late December that
\* belongs to the next.
C14_IsoWeekNumber ==
  cal.phase = "numbered" =>
    LET z == LocalDays(cal.today, zone)
    IN /\ cal.weekNumber = IsoWeek(z)
       /\ cal.weekNumber \in 1..53
       /\ IsoYear(z) < CivilFromDays(z).y => cal.weekNumber \in {52, 53}
       /\ IsoYear(z) > CivilFromDays(z).y => cal.weekNumber = 1

\* 1 January 2021, a Friday, is in week 53 of 2020
C14_Witness ==
  /\ cal.phase = "numbered"
  /\ CivilFromDays(LocalDays(cal.today, zone)) = [y |-> 2021, m |-> 1, d |-> 1]
  /\ cal.weekNumber = 53

\* the container lookup of the request found no container or failed
LookupFailed(q) ==
  HasOutcome(q, "lookup", "none") \/ HasOutcome(q, "lookup", "throw")

\* C15 as stated: in the Newsletter pipeline a lookup that finds no
\* container, or fails, does not end the request: the create call follows,
\* the record it creates has no relation, the result reports no linked
\* container, and the request is answered 200.
C15_AsStated ==
  \A r \in DOMAIN req :
    LET q == req[r]
    IN (q.pipeline = "newsletter" /\ LookupFailed(q)) =>
         /\ q.pc = "create" \/ Has(q, "create")
         /\ q.link = 0
         /\ HasOutcome(q, "create", "ok") =>
              /\ \E rec \in store :
                   rec.id = q.page /\ rec.kind = "newsletter" /\ rec.link = 0
              /\ q.pc = "done" => q.resp.status = 200 /\ q.resp.success

\* the title the Newsletter and Inbox pipelines are to give a record: the
\* extracted one, else the subject, else the fixed default
ExpectedTitle(q) ==
  IF Truthy(q.data.name) THEN q.data.name
  ELSE IF Truthy(q.env.subject) THEN q.env.subject
  ELSE IF q.pipeline = "newsletter" THEN Str(DefaultNewsletterTitle)
  ELSE Str(DefaultInboxTitle)

\* C16 as stated: a Newsletter or Inbox request whose extraction returned,
\* with whatever fields missing, does not fail for it: the create call
\* follows, the record's title is the extracted title, else the subject,
\* else the default, never empty, and once the record is created the request
\* is answered 200.
C16_AsStated ==
  \A r \in DOMAIN req :
    LET q == req[r]
    IN (q.pipeline \in {"newsletter", "inbox"} /\ HasOutcome(q, "extract", "ok")) =>
         /\ q.pc \in {"lookup", "create"} \/ Has(q, "create")
         /\ q.title = ExpectedTitle(q) /\ Truthy(q.title)
         /\ HasOutcome(q, "create", "ok") =>
              /\ \E rec \in store : rec.id = q.page /\ rec.title = ExpectedTitle(q)
              /\ q.pc = "done" => q.resp.status = 200 /\ q.resp.title = q.title

\* the payload fields a recipient can come from
RecipientFields ==
  {"To", "To.0", "To.0.Address", "to", "envelope.to.0", "recipient",
   "ToFull.0.Email"}

\* no display name around the address: no angle bracket and no blank
NoDisplayName(s) == \A i \in 1..Len(s) : s[i] \notin {"<", ">", " "}

\* C17 as stated: after normalization a textual from has no display name,
\* a textual to is a bare address found in one of the payload's recipient
\* fields, and to is the empty string when the payload has no recipient.
C17_AsStated ==
  \A r \in DOMAIN req :
    LET q == req[r]
        p == q.payload
    IN q.env # NoEnvelope =>
         /\ q.env.from.t = "string" => NoDisplayName(q.env.from.s)
         /\ (q.env.to.t = "string" /\ q.env.to.s # <<>>) =>
              /\ NoDisplayName(q.env.to.s)
              /\ Includes(q.env.to.s, <<"@">>)
              /\ \E k \in RecipientFields :
                   p[k].t = "string" /\ Includes(p[k].s, q.env.to.s)
         /\ (\A k \in RecipientFields : ~Truthy(p[k])) => q.env.to = EmptyStr

\* the test request carries content in body, email or content
HasContent(p) == Truthy(p["body"]) \/ Truthy(p["email"]) \/ Truthy(p["content"])

\* the test request carries from, subject and body and nothing else
OnlyFromSubjectBody(p) ==
  /\ Truthy(p["from"]) /\ Truthy(p["subject"]) /\ Truthy(p["body"])
  /\ \A k \in {"to", "email", "content"} : p[k] = Undefined

\* the handler of the test endpoint has run on the request
TestHandled(q) == q.pc \notin {"test-received"}

C19_NoDeduplication ==
  \A r1, r2 \in DOMAIN req :
    (/\ r1 # r2
     /\ req[r1].payload = req[r2].payload
     /\ HasOutcome(req[r1], "create", "ok")
     /\ HasOutcome(req[r2], "create", "ok"))
      => /\ req[r1].page # req[r2].page
         /\ \E rec1, rec2 \in store :
              /\ rec1.id = req[r1].page /\ rec1.by = r1
              /\ rec2.id = req[r2].page /\ rec2.by = r2
              /\ rec1 # rec2
         /\ Cardinality(store) = 2

\* both deliveries answered 200, with records that differ in nothing but
\* their identity
C19_Witness ==
  /\ \A r \in DOMAIN req : req[r].pc = "done" /\ req[r].resp.status = 200
  /\ \E rec1, rec2 \in store :
       /\ rec1.id # rec2.id
       /\ [rec1 EXCEPT !.id = 0, !.by = 0] = [rec2 EXCEPT !.id = 0, !.by = 0]

\* the best-effort steps of a pipeline
SideEffects == {"comment", "notify", "confirm"}

\* C20: within a request a comment, a notification or a confirmation email
\* is attempted only after the create call has returned a page, and not at
\* all when the extraction or the create call has failed.
C20_SideEffectsAfterCreate ==
  \A r \in DOMAIN req :
    LET q == req[r]
    IN /\ q.pc \in SideEffects => HasOutcome(q, "create", "ok")
       /\ \A i \in 1..Len(q.calls) :
            q.calls[i].call \in SideEffects
              => \E j \in 1..(i - 1) : q.calls[j] = Call("create", "ok")
       /\ (HasOutcome(q, "extract", "throw") \/ HasOutcome(q, "create", "throw"))
            => /\ q.pc = "done"
               /\ \A i \in 1..Len(q.calls) : q.calls[i].call \notin SideEffects

C20_Witness ==
  \E r \in DOMAIN req :
    /\ req[r].pc = "done"
    /\ Len(req[r].calls) = 6
    /\ [i \in 1..6 |-> req[r].calls[i].call]
         = <<"extract", "lookup", "create", "comment", "notify", "confirm">>

\* the position of the first call of the given name, 0 when there is none
FirstCall(q, name) ==
  IF Has(q, name)
  THEN CHOOSE i \in 1..Len(q.calls) :
         q.calls[i].call = name /\ \A j \in 1..(i - 1) : q.calls[j].call # name
  ELSE 0

\* C21 as stated: in the Newsletter pipeline the container lookup comes
\* after the create call of the content record, never before it.
C21_AsStated ==
  \A r \in DOMAIN req :
    LET q == req[r]
    IN (q.pipeline = "newsletter" /\ Has(q, "lookup"))
         => /\ Has(q, "create")
            /\ FirstCall(q, "extract") < FirstCall(q, "create")
            /\ FirstCall(q, "create") < FirstCall(q, "lookup")

\* C21 amended: in the Newsletter pipeline the order is extraction, then
\* the container lookup, then the create call; the create call is never made
\* before the lookup has returned, and the created record carries the
\* relation exactly when the lookup found a container.
C21_LookupBeforeCreate ==
  \A r \in DOMAIN req :
    LET q == req[r]
    IN q.pipeline = "newsletter" =>
         /\ q.pc = "create" => Has(q, "lookup")
         /\ Has(q, "lookup")
              => /\ FirstCall(q, "extract") > 0
                 /\ FirstCall(q, "extract") < FirstCall(q, "lookup")
         /\ Has(q, "create")
              => /\ FirstCall(q, "lookup") > 0
                 /\ FirstCall(q, "lookup") < FirstCall(q, "create")
         /\ \A rec \in RecordsOf(r) :
              rec.link = 1 <=> HasOutcome(q, "lookup", "found")

C21_Witness ==
  \E r \in DOMAIN req :
    /\ req[r].pipeline = "newsletter"
    /\ HasOutcome(req[r], "lookup", "found")
    /\ HasOutcome(req[r], "create", "ok")
    /\ \E rec \in RecordsOf(r) : rec.link = 1

\* the sender is a real address: text, not empty and not a placeholder
RealSender(q) ==
  /\ q.env.from.t = "string"
  /\ q.env.from.s \notin {<<>>, Unknown, TestSender}

\* C22 as stated: in every pipeline, a request with a real sender whose
\* record has been created is answered only after a notification and a
\* confirmation email have been attempted.
C22_AsStated ==
  \A r \in DOMAIN req :
    LET q == req[r]
    IN (RealSender(q) /\ HasOutcome(q, "create", "ok") /\ q.pc = "done")
         => Has(q, "notify") /\ Has(q, "confirm")

\* C22 amended: such a request is answered only after the notification has
\* been attempted, in all three pipelines; the confirmation email is
\* attempted, after the notification, in the Event and Newsletter pipelines
\* and never in the Inbox pipeline.
C22_NotifyThenConfirm ==
  \A r \in DOMAIN req :
    LET q == req[r]
    IN (RealSender(q) /\ HasOutcome(q, "create", "ok") /\ q.pc = "done")
         => /\ Has(q, "notify")
            /\ FirstCall(q, "create") < FirstCall(q, "notify")
            /\ Has(q, "confirm") <=> q.pipeline \in {"event", "newsletter"}
            /\ Has(q, "confirm") => FirstCall(q, "notify") < FirstCall(q, "confirm")
            /\ q.resp.status = 200 /\ q.sent = 1

C22_Witness ==
  \E r \in DOMAIN req :
    /\ RealSender(req[r]) /\ req[r].pipeline = "inbox"
    /\ req[r].pc = "done" /\ req[r].resp.status = 200
    /\ Has(req[r], "notify") /\ ~Has(req[r], "confirm")

\* the payload has one of the four body fields of the generic shape
HasGenericBody(p) ==
  \E k \in {"body", "text", "content", "html"} : Truthy(p[k])

\* the payload matches none of the four provider shapes
NoProviderShape(p) ==
  ~BrevoPred(p) /\ ~SendGridPred(p) /\ ~MailgunPred(p) /\ ~PostmarkPred(p)

\* C23 as stated: the generic matcher produces the envelope only of a
\* payload with one of body, text, content, html; a payload with from or
\* sender, none of the four and no provider shape gets the fallback's
\* envelope, with a non-empty body, and is not answered 400.
C23_AsStated ==
  \A r \in DOMAIN req :
    LET q == req[r]
        p == q.payload
    IN q.env # NoEnvelope =>
         /\ q.env.matcher = "generic" => HasGenericBody(p)
         /\ (/\ Truthy(p["from"]) \/ Truthy(p["sender"])
             /\ ~HasGenericBody(p)
             /\ NoProviderShape(p))
              => /\ q.env.matcher = "fallback"
                 /\ Truthy(q.env.body)
                 /\ q.resp.status # 400

\* the plain-text fields and the HTML field each matcher reads its body from
BodyFieldsOf ==
  [brevo |-> [text |-> {"RawTextBody", "ExtractedMarkdownMessage"},
              html |-> "RawHtmlBody"],
   sendgrid |-> [text |-> {"text"}, html |-> "html"],
   mailgun |-> [text |-> {"body-plain"}, html |-> "body-html"],
   postmark |-> [text |-> {"TextBody"}, html |-> "HtmlBody"],
   generic |-> [text |-> {"body", "text", "content"}, html |-> "html"]]

\* the payload offers the matcher an HTML body and no plain text
OnlyHtml(p, m) ==
  /\ \A k \in BodyFieldsOf[m].text : ~Truthy(p[k])
  /\ p[BodyFieldsOf[m].html].t = "string" /\ p[BodyFieldsOf[m].html].s # <<>>

\* the envelope body of a request whose payload offers only HTML is the
\* stripped text of that HTML, with no tag left in it
StrippedBody(q, m) ==
  (q.env.matcher = m /\ OnlyHtml(q.payload, m))
    => /\ q.env.body = stripHtml(q.payload[BodyFieldsOf[m].html])
       /\ \A i \in 1..Len(q.env.body.s) : q.env.body.s[i] \notin {"<", ">"}

\* C24 as stated: for each of the four provider matchers and for the generic
\* matcher, a payload with only an HTML body gets the stripped text as its
\* envelope body, never the raw HTML.
C24_AsStated ==
  \A r \in DOMAIN req :
    req[r].env # NoEnvelope
      => \A m \in DOMAIN BodyFieldsOf : StrippedBody(req[r], m)

\* the four entities decoded in one pass from left to right: what a
\* decoded entity leaves behind is not looked at again
RECURSIVE DecodeOnce(_, _)
DecodeOnce(s, i) ==
  IF i > Len(s) THEN <<>>
  ELSE IF MatchAt(s, i, Nbsp) THEN <<" ">> \o DecodeOnce(s, i + Len(Nbsp))
  ELSE IF MatchAt(s, i, Amp) THEN <<"&">> \o DecodeOnce(s, i + Len(Amp))
  ELSE IF MatchAt(s, i, Lt) THEN <<"<">> \o DecodeOnce(s, i + Len(Lt))
  ELSE IF MatchAt(s, i, Gt) THEN <<">">> \o DecodeOnce(s, i + Len(Gt))
  ELSE <<s[i]>> \o DecodeOnce(s, i + 1)

\* line breaks and paragraph closes to newlines, then the tags deleted
TagFree(s) ==
  RemoveTags(ReplaceLitCI(ReplaceBr(s, 1), 1, <<"<", "/", "p", ">">>,
                          <<"\n", "\n">>), 1)

\* C25 as stated: stripHtml gives the tag-free text with each entity decoded
\* exactly once, trimmed; '&amp;lt;' gives '&lt;' and '&lt;b&gt;' gives '<b>'.
C25_AsStated ==
  cal.phase = "stripped" =>
    /\ cal.text = Str(Trim(DecodeOnce(TagFree(cal.html.s), 1)))
    /\ cal.html.s = Amp \o <<"l", "t", ";">> => cal.text = Str(Lt)
    /\ cal.html.s = Lt \o <<"b">> \o Gt => cal.text = Str(<<"<", "b", ">">>)

\* the server-local day of the instant is a Sunday of month m of year y,
\* on day 25..31, with no later Sunday in the month
IsLastSunday(t, y, m, tz) ==
  LET c == CivilFromDays(LocalDays(t, tz))
  IN /\ c.y = y /\ c.m = m /\ c.d \in 25..31
     /\ WeekdayOfDays(LocalDays(t, tz)) = 0
     /\ c.d = LastSunday(y, m)

\* C26: the boundary days computed as 31 minus the weekday index of the
\* 31st of March and of October are Sundays on day 25..31, the last Sundays
\* of their months.
C26_LastSundays ==
  cal.phase = "bounded" =>
    /\ IsLastSunday(cal.dstStart, cal.year, 3, zone)
    /\ IsLastSunday(cal.dstEnd, cal.year, 10, zone)

\* 2024: 31 March is itself a Sunday, the last Sunday of October is the 27th
C26_Witness ==
  /\ cal.phase = "bounded" /\ cal.year = 2024
  /\ CivilFromDays(LocalDays(cal.dstStart, zone)).d = 31
  /\ CivilFromDays(LocalDays(cal.dstEnd, zone)).d = 27

\* a composed value is a bare date YYYY-MM-DD
IsBareDate(s) == Len(s) = 10 /\ \A i \in 1..Len(s) : s[i] # "T"

\* a composed value is a date, 'T', a time with seconds and a UTC offset
IsDateTime(s) ==
  /\ Len(s) = 25 /\ s[11] = "T"
  /\ OffsetOf(s) \in {Plus1, Plus2}

\* C27 as stated: in a composed range that has an end, start and end are
\* both bare dates or both date, time and offset.
C27_AsStated ==
  (cal.phase = "composed" /\ Truthy(cal.result.end)) =>
    \/ IsBareDate(cal.result.start.s) /\ IsBareDate(cal.result.end.s)
    \/ IsDateTime(cal.result.start.s) /\ IsDateTime(cal.result.end.s)

\* the handler of POST /webhook/email run on its own, up to its first await
SoloReceive(q) ==
  LET env == parseInboundEmail(q.payload)
      q1 == [q EXCEPT !.env = env]
  IN IF env.threw THEN Respond(q, Failure(500, "TypeError"))
     ELSE IF ~Truthy(env.body) THEN Respond(q1, Failure(400, NoBodyError))
     ELSE IF env.to.t # "string" THEN Respond(q1, Failure(500, "TypeError"))
     ELSE Await([q1 EXCEPT !.pipeline = Route(ToLowerCase(env.to.s))], "extract")

\* the handler run on its own from one await to the next, given the answer
\* a of the collaborator it is waiting for
SoloStep(s, a, data, page) ==
  LET s1 == [s EXCEPT !.calls = Append(@, a)]
  IN IF s.pc # a.call THEN [s EXCEPT !.pc = "impossible"]
     ELSE IF a.call = "extract"
     THEN IF a.outcome = "ok" THEN AfterExtract(s, data)
          ELSE Respond(s1, Failure(500, "extraction failed"))
     ELSE IF a.call = "errmail" THEN Respond(s1, Failure(500, ValidationError))
     ELSE IF a.call = "lookup"
     THEN Await([s1 EXCEPT !.link = IF a.outcome = "found" THEN 1 ELSE 0],
                "create")
     ELSE IF a.call = "create"
     THEN IF a.outcome = "ok" THEN AfterCreate([s1 EXCEPT !.page = page])
          ELSE Respond(s1, Failure(500, "create failed"))
     ELSE IF a.call = "comment" THEN BeforeNotify(s1)
     ELSE IF a.call = "notify"
     THEN IF s.pipeline \in {"event", "newsletter"} /\ ConfirmationGuard(s.env.from)
          THEN Await(s1, "confirm")
          ELSE Finish(s1)
     ELSE Finish(s1)

RECURSIVE SoloRun(_, _, _, _)
SoloRun(s, answers, data, page) ==
  IF answers = <<>> THEN s
  ELSE SoloRun(SoloStep(s, Head(answers), data, page), Tail(answers), data, page)

\* the state a request with the payload of q is in when it runs with no
\* other request in flight and its collaborators give the answers q got
Alone(q) ==
  IF q.pc = "received" THEN NewRequest(q.payload)
  ELSE SoloRun(SoloReceive(NewRequest(q.payload)), q.calls, q.data, q.page)

\* C28: with two requests in flight at the same time, under every
\* interleaving of their awaits, the envelope, pipeline, side effects and
\* response of each request are those of the same request run alone with
\* the same collaborator answers, and the records in the store are one per
\* successful create call, each built from its own request only.
C28_Independent ==
  /\ \A r \in DOMAIN req : req[r] = Alone(req[r])
  /\ \A r \in DOMAIN req :
       RecordsOf(r) = IF HasOutcome(req[r], "create", "ok")
                      THEN {NewRecord(req[r].page, r, req[r], zone)}
                      ELSE {}
  /\ store = UNION {RecordsOf(r) : r \in DOMAIN req}

\* two requests of different pipelines in flight at the same time, one past
\* its create call and the other past its extraction
C28_Witness ==
  /\ \A r \in DOMAIN req : req[r].pc \notin {"received", "done"}
  /\ req[1].pipeline # req[2].pipeline
  /\ HasOutcome(req[1], "create", "ok")
  /\ HasOutcome(req[2], "extract", "ok")

\* the calendar day the publication date text names
PublicationDay == NewDateISO(cal.publicatieDatum) \div MinutesPerDay

\* C29 as stated: for every reference instant and every server UTC offset
\* the publication date written to a newsletter record is a Thursday, is the
\* calendar day the week number was computed for, and lies in the ISO week
\* whose number names the container.
C29_AsStated ==
  cal.phase = "scheduled" =>
    /\ WeekdayOfDays(PublicationDay) = 4
    /\ PublicationDay = LocalDays(cal.thursday, zone)
    /\ IsoWeek(PublicationDay) = cal.weekNumber

\* a sender that is no real address: empty, 'unknown', or the default of
\* the test endpoint
PlaceholderSender(from) ==
  ~Truthy(from) \/ from = Str(Unknown) \/ from = Str(TestSender)

\* the request has started a call that sends an email to its sender
MailsSender(q) ==
  \/ q.pc \in {"confirm", "errmail"}
  \/ Has(q, "confirm") \/ Has(q, "errmail")

\* C30 as stated: when the sender is empty, 'unknown' or 'test@example.com',
\* neither a confirmation email nor an error-notification email is sent, on
\* either endpoint and in every pipeline.
C30_AsStated ==
  \A r \in DOMAIN req :
    (req[r].env # NoEnvelope /\ PlaceholderSender(req[r].env.from))
      => ~MailsSender(req[r])

====
